---------------------------- MODULE Spec2Model ----------------------------
(***************************************************************************)
(* NeoView glucose monitor API (backend/server.py): the classification     *)
(* function, the five request handlers and the MongoDB collection they     *)
(* share.                                                                  *)
(*                                                                         *)
(* Representation.                                                         *)
(*  - A glucose value is a Python float.  The model keeps it as an integer *)
(*    number of tenths of mg/dL (140.5 is 1405), so fractional readings    *)
(*    exist and comparisons against 70, 140, 141, 199 and 200 are exact.   *)
(*  - An Optional[str] is a sequence: << >> is None, <<s>> is the string s.*)
(*  - The collection is the sequence of its documents in insertion order.  *)
(*  - uuid4() is a fresh number; datetime.now(timezone.utc) reads the      *)
(*    variable now, the wall clock in milliseconds (the resolution of a    *)
(*    BSON datetime, which is what created_at is stored as).  The two      *)
(*    readings a create makes, for timestamp and for created_at, are       *)
(*    taken as one.  Requests answered within one millisecond read the     *)
(*    same value.                                                          *)
(*  - Every store call can raise (the store cannot be reached); each       *)
(*    handler's except clause answers that with status 500.                *)
(*  - The label "Atenção" is written "Atencao".                            *)
(***************************************************************************)
EXTENDS Integers, Sequences, FiniteSets, TLC

VARIABLES
    docs,        \* glucose_collection: documents in insertion order
    now,         \* wall clock, in milliseconds
    nextId,      \* number of documents inserted so far; uuid4() gives nextId + 1
    op,          \* the request answered last: its name and, for get-history, its limit
    resp,        \* its HTTP response
    before,      \* number of stored documents when op started
    pc,          \* a get_glucose_stats served by another process: "idle", "counted", "grouped"
    st_total,    \* its local total_readings
    st_cats,     \* its local category_stats
    cleared,     \* a clear-all was answered 200 and no create request came since
    returned,    \* bodies of the creates answered 200 since the last clear-all
    probe,       \* input of the classification probe
    verdict      \* << >>, or <<categorize_glucose(probe)>>

vars == <<docs, now, nextId, op, resp, before, pc, st_total, st_cats,
          cleared, returned, probe, verdict>>

-----------------------------------------------------------------------------
(* Bounds of the model *)

MaxCreates == 2
MaxClock == 1
ProbeBelow == 5
ProbeAbove == 210

(* Program constants *)

DefaultLimit == 50

-----------------------------------------------------------------------------
(* Values *)

Tenths(n) == 10 * n

None == << >>
Some(s) == <<s>>

DefaultDeviceId == Some("ESP32_001")

\* datetime.isoformat() of the clock value t, for t below 10 ms
IsoFormat(t) == "1970-01-01T00:00:00.00" \o ToString(t) \o "000+00:00"

\* Python truthiness of an Optional[str]: None and "" are falsy
Truthy(o) == o # None /\ o[1] # ""

-----------------------------------------------------------------------------
(* categorize_glucose *)

\* mutant: the first comparison taken as value <= 70
categorize_glucose_le(value) ==
    IF value <= Tenths(70) THEN <<"Hipoglicemia", "#ef4444">>
    ELSE IF Tenths(70) <= value /\ value <= Tenths(140) THEN <<"Normal", "#22c55e">>
    ELSE IF Tenths(141) <= value /\ value <= Tenths(199) THEN <<"Atencao", "#f59e0b">>
    ELSE <<"Alerta", "#dc2626">>

categorize_glucose(value) ==
    IF value < Tenths(70) THEN <<"Hipoglicemia", "#ef4444">>
    ELSE IF Tenths(70) <= value /\ value <= Tenths(140) THEN <<"Normal", "#22c55e">>
    ELSE IF Tenths(141) <= value /\ value <= Tenths(199) THEN <<"Atencao", "#f59e0b">>
    ELSE <<"Alerta", "#dc2626">>

-----------------------------------------------------------------------------
(* Request and response models *)

TimestampInputs == {None, Some(""), Some("2024-05-01T08:30:00Z")}
DeviceInputs == {None, Some("ESP32_002")}
Values == {Tenths(65), Tenths(140) + 5}

\* JSON bodies POST /api/glucose accepts; an optional key may be left out
PayloadsOf(vals) ==
    [glucose_value : vals]
    \cup [glucose_value : vals, timestamp : TimestampInputs]
    \cup [glucose_value : vals, device_id : DeviceInputs]
    \cup [glucose_value : vals, timestamp : TimestampInputs, device_id : DeviceInputs]

Payloads == PayloadsOf(Values)

\* class GlucoseReading: the defaults of the keys left out
GlucoseReading(p) ==
    [glucose_value |-> p.glucose_value,
     timestamp |-> IF "timestamp" \in DOMAIN p THEN p.timestamp ELSE None,
     device_id |-> IF "device_id" \in DOMAIN p THEN p.device_id ELSE DefaultDeviceId]

\* class GlucoseResponse: every field is required and typed; device_id: str
\* rejects None, the only field of a document that can hold it
Validates(device_id) == device_id # None

GlucoseResponse(id, glucose_value, category, color, timestamp, device_id) ==
    [id |-> id, glucose_value |-> glucose_value, category |-> category,
     timestamp |-> timestamp, device_id |-> device_id[1], color |-> color]

\* mutant: the response's timestamp read from created_at
ResponseOf_created_at(d) ==
    GlucoseResponse(d.id, d.glucose_value, d.category, d.color, IsoFormat(d.created_at),
                    d.device_id)

\* a stored document read back into a GlucoseResponse (lines 109-116 and 132-139)
ResponseOf(d) ==
    GlucoseResponse(d.id, d.glucose_value, d.category, d.color, d.timestamp, d.device_id)

Ok(body) == [status |-> 200, body |-> body]

\* raise HTTPException(status_code=500, detail=f"<detail>: {str(e)}")
HTTPException(detail, e) == [status |-> 500, body |-> [detail |-> detail, cause |-> e]]

NoResponse == [status |-> 0, body |-> << >>]

-----------------------------------------------------------------------------
(* The collection: pymongo over MongoDB *)

Take(s, k) == SubSeq(s, 1, IF k < Len(s) THEN k ELSE Len(s))

Abs(n) == IF n < 0 THEN 0 - n ELSE n

\* sort=[("created_at", -1)]: every order of the documents that is descending in
\* created_at; the store orders documents of equal created_at as it pleases
SortedDesc(c) ==
    LET n == Len(c)
        perms == {p \in Permutations(1..n) :
                     \A i, j \in 1..n : i < j => c[p[i]].created_at >= c[p[j]].created_at}
    IN {[i \in 1..n |-> c[p[i]]] : p \in perms}

\* Collection.find(sort=..., limit=limit): limit 0 is no limit, and a negative
\* limit asks for a single batch of abs(limit) documents
find(c, limit) ==
    {IF limit = 0 THEN s ELSE Take(s, Abs(limit)) : s \in SortedDesc(c)}

\* Collection.find_one(sort=...): the first document of find(...).limit(-1), or None
find_one(c) == {Take(s, 1) : s \in SortedDesc(c)}

count_documents(c) == Len(c)

Present(c) == {c[i].category : i \in 1..Len(c)}

\* aggregate([{"$group": {"_id": "$category", "count": {"$sum": 1}}}]) read into
\* {stat["_id"]: stat["count"]}
GroupByCategory(c) ==
    [k \in Present(c) |-> Cardinality({i \in 1..Len(c) : c[i].category = k})]

RECURSIVE SumValues(_)
SumValues(c) == IF c = << >> THEN 0 ELSE c[1].glucose_value + SumValues(Tail(c))

\* aggregate([{"$group": {"_id": None, "avg_glucose": {"$avg": "$glucose_value"}}}]):
\* no row for the empty collection, else the mean, kept as <<sum, count>>
AvgGlucose(c) == IF c = << >> THEN << >> ELSE << <<SumValues(c), Len(c)>> >>

\* round(avg_glucose, 1), in tenths: the tenth nearest to the double that holds the
\* mean.  A mean half way between two tenths, (2q+1)/20 mg/dL, is a double exactly
\* when 5 divides 2q+1, and round() then goes to the even tenth; otherwise the
\* double lies just above or just below the mean, and either tenth can come out.
Round1(avg) ==
    LET q == avg[1] \div avg[2]
        r == avg[1] % avg[2]
    IN IF 2 * r < avg[2] THEN {q}
       ELSE IF 2 * r > avg[2] THEN {q + 1}
       ELSE IF (2 * q + 1) % 5 = 0 THEN {IF q % 2 = 0 THEN q ELSE q + 1}
       ELSE {q, q + 1}

-----------------------------------------------------------------------------
(* Initial states *)

Limits == {0 - 1, 0, 1, DefaultLimit}

InitWith(values) ==
    /\ docs = << >>
    /\ now = 0
    /\ nextId = 0
    /\ op = [name |-> "none", limit |-> 0]
    /\ resp = NoResponse
    /\ before = 0
    /\ pc = "idle"
    /\ st_total = 0
    /\ st_cats = << >>
    /\ cleared = FALSE
    /\ returned = {}
    /\ probe \in values
    /\ verdict = << >>

Init == InitWith({0})

-----------------------------------------------------------------------------
(* What every answered request records *)

Request(name, limit) == [name |-> name, limit |-> limit]

Answer(request, r) ==
    /\ op' = request
    /\ resp' = r
    /\ before' = Len(docs)

\* a request that is no part of a get-stats in flight
OutsideStats == UNCHANGED <<pc, st_total, st_cats>>

-----------------------------------------------------------------------------
(* POST /api/glucose *)

\* timestamp: the provided one or the current time
ResolveTimestamp(reading, clock) ==
    IF Truthy(reading.timestamp) THEN reading.timestamp[1] ELSE IsoFormat(clock)

GlucoseDoc(reading_id, reading, category, color, timestamp, created_at) ==
    [id |-> reading_id,
     glucose_value |-> reading.glucose_value,
     category |-> category,
     color |-> color,
     timestamp |-> timestamp,
     device_id |-> reading.device_id,
     created_at |-> created_at]

insert_one(c, doc) == Append(c, doc)

\* the return after insert_one: the response is built from the handler's locals,
\* and a GlucoseResponse that does not validate is answered by the except clause
CreateResponse(reading_id, reading, category, color, timestamp) ==
    IF Validates(reading.device_id)
    THEN Ok(GlucoseResponse(reading_id, reading.glucose_value, category, color,
                            timestamp, reading.device_id))
    ELSE HTTPException("Error saving glucose reading", "validation")

save_glucose_reading(payloads) ==
    /\ cleared' = FALSE
    /\ OutsideStats
    /\ UNCHANGED <<now, probe, verdict>>
    /\ \/ \E p \in payloads :
             LET reading == GlucoseReading(p)
                 reading_id == nextId + 1
                 timestamp == ResolveTimestamp(reading, now)
                 cc == categorize_glucose(reading.glucose_value)
                 glucose_doc == GlucoseDoc(reading_id, reading, cc[1], cc[2], timestamp, now)
                 answer == CreateResponse(reading_id, reading, cc[1], cc[2], timestamp)
             IN /\ nextId < MaxCreates
                /\ docs' = insert_one(docs, glucose_doc)
                /\ nextId' = nextId + 1
                /\ Answer(Request("create", 0), answer)
                /\ returned' = IF answer.status = 200 THEN returned \cup {answer.body}
                               ELSE returned
       \/ \* insert_one raises: the store cannot be reached
          /\ payloads # {}
          /\ Answer(Request("create", 0),
                    HTTPException("Error saving glucose reading", "store"))
          /\ UNCHANGED <<docs, nextId, returned>>

Create == save_glucose_reading(Payloads)

-----------------------------------------------------------------------------
(* GET /api/glucose/latest *)

LatestResponse(latest) ==
    IF latest = << >> THEN Ok(<< >>)
    ELSE IF Validates(latest[1].device_id) THEN Ok(<<ResponseOf(latest[1])>>)
    ELSE HTTPException("Error fetching latest reading", "validation")

get_latest_glucose ==
    /\ \E storeOk \in BOOLEAN :
          IF storeOk
          THEN \E latest \in find_one(docs) : Answer(Request("latest", 0), LatestResponse(latest))
          ELSE Answer(Request("latest", 0), HTTPException("Error fetching latest reading", "store"))
    /\ OutsideStats
    /\ UNCHANGED <<docs, now, nextId, cleared, returned, probe, verdict>>

-----------------------------------------------------------------------------
(* GET /api/glucose/history *)

HistoryResponse(readings) ==
    IF \A i \in 1..Len(readings) : Validates(readings[i].device_id)
    THEN Ok([i \in 1..Len(readings) |-> ResponseOf(readings[i])])
    ELSE HTTPException("Error fetching history", "validation")

get_glucose_history ==
    /\ \E limit \in Limits, storeOk \in BOOLEAN :
          IF storeOk
          THEN \E readings \in find(docs, limit) :
                  Answer(Request("history", limit), HistoryResponse(readings))
          ELSE Answer(Request("history", limit), HTTPException("Error fetching history", "store"))
    /\ OutsideStats
    /\ UNCHANGED <<docs, now, nextId, cleared, returned, probe, verdict>>

-----------------------------------------------------------------------------
(* GET /api/glucose/stats *)

StatsResponse(total_readings, category_stats, avg_result) ==
    {Ok([total_readings |-> total_readings,
         average_glucose |-> a,
         category_distribution |-> category_stats]) :
        a \in IF avg_result = << >> THEN {0} ELSE Round1(avg_result[1])}

\* The handler as the server process runs it: an async def that never awaits, so
\* no other request of this process runs between its three queries.
get_glucose_stats ==
    /\ pc = "idle"
    /\ \E storeOk \in BOOLEAN :
          IF storeOk
          THEN \E r \in StatsResponse(count_documents(docs), GroupByCategory(docs),
                                      AvgGlucose(docs)) :
                  Answer(Request("stats", 0), r)
          ELSE Answer(Request("stats", 0), HTTPException("Error fetching stats", "store"))
    /\ OutsideStats
    /\ UNCHANGED <<docs, now, nextId, cleared, returned, probe, verdict>>

(* The same handler served by another process on the same collection: its     *)
(* three queries are three steps, and the requests of this process can reach  *)
(* the store between them.                                                     *)

\* total_readings = glucose_collection.count_documents({})
StatsCount ==
    /\ pc = "idle"
    /\ \E storeOk \in BOOLEAN :
          IF storeOk
          THEN /\ st_total' = count_documents(docs)
               /\ pc' = "counted"
               /\ UNCHANGED <<op, resp, before>>
          ELSE /\ Answer(Request("stats", 0), HTTPException("Error fetching stats", "store"))
               /\ UNCHANGED <<pc, st_total>>
    /\ UNCHANGED <<docs, now, nextId, st_cats, cleared, returned, probe, verdict>>

\* category_stats = list(glucose_collection.aggregate(pipeline))
StatsGroup ==
    /\ pc = "counted"
    /\ \E storeOk \in BOOLEAN :
          IF storeOk
          THEN /\ st_cats' = GroupByCategory(docs)
               /\ pc' = "grouped"
               /\ UNCHANGED <<op, resp, before, st_total>>
          ELSE /\ Answer(Request("stats", 0), HTTPException("Error fetching stats", "store"))
               /\ pc' = "idle"
               /\ st_total' = 0
               /\ st_cats' = << >>
    /\ UNCHANGED <<docs, now, nextId, cleared, returned, probe, verdict>>

\* avg_result = list(glucose_collection.aggregate(avg_pipeline)), and the return
StatsAvg ==
    /\ pc = "grouped"
    /\ \E storeOk \in BOOLEAN :
          IF storeOk
          THEN \E r \in StatsResponse(st_total, st_cats, AvgGlucose(docs)) :
                  Answer(Request("stats", 0), r)
          ELSE Answer(Request("stats", 0), HTTPException("Error fetching stats", "store"))
    /\ pc' = "idle"
    /\ st_total' = 0
    /\ st_cats' = << >>
    /\ UNCHANGED <<docs, now, nextId, cleared, returned, probe, verdict>>

-----------------------------------------------------------------------------
(* DELETE /api/glucose/clear *)

\* mutant: delete_one in place of delete_many
delete_one(c) ==
    IF c = << >> THEN [collection |-> << >>, deleted_count |-> 0]
    ELSE [collection |-> Tail(c), deleted_count |-> 1]

\* delete_many({}): the collection afterwards and result.deleted_count
delete_many(c) == [collection |-> << >>, deleted_count |-> Len(c)]

clear_all_readings ==
    /\ \E storeOk \in BOOLEAN :
          IF storeOk
          THEN LET result == delete_many(docs)
               IN /\ docs' = result.collection
                  /\ Answer(Request("clear", 0), Ok([deleted |-> result.deleted_count]))
                  /\ cleared' = TRUE
                  /\ returned' = {}
                  /\ OutsideStats
          ELSE /\ Answer(Request("clear", 0), HTTPException("Error clearing readings", "store"))
               /\ UNCHANGED <<docs, cleared, returned>>
               /\ OutsideStats
    /\ UNCHANGED <<now, nextId, probe, verdict>>

-----------------------------------------------------------------------------
(* The wall clock *)

Tick ==
    /\ now < MaxClock
    /\ now' = now + 1
    /\ UNCHANGED <<docs, nextId, op, resp, before, pc, st_total, st_cats,
                   cleared, returned, probe, verdict>>

-----------------------------------------------------------------------------
(* The service *)

\* One server process, as uvicorn.run(app) starts it
Next ==
    \/ Create
    \/ get_latest_glucose
    \/ get_glucose_history
    \/ get_glucose_stats
    \/ clear_all_readings
    \/ Tick

Spec == Init /\ [][Next]_vars

\* Two server processes on one collection: this one, and one answering a get-stats
NextProcs ==
    \/ Create
    \/ clear_all_readings
    \/ StatsCount
    \/ StatsGroup
    \/ StatsAvg
    \/ Tick

SpecProcs == Init /\ [][NextProcs]_vars

-----------------------------------------------------------------------------
(* The classification over the numeric line: every tenth of mg/dL from         *)
(* -ProbeBelow to ProbeAbove, classified directly and through a create         *)

ProbeValues == Tenths(0 - ProbeBelow) .. Tenths(ProbeAbove)

InitClassify == InitWith(ProbeValues)

Classify ==
    /\ verdict' = <<categorize_glucose(probe)>>
    /\ UNCHANGED <<docs, now, nextId, op, resp, before, pc, st_total, st_cats,
                   cleared, returned, probe>>

CreateProbe == save_glucose_reading([glucose_value : {probe}])

NextClassify == Classify \/ CreateProbe

SpecClassify == InitClassify /\ [][NextClassify]_vars

-----------------------------------------------------------------------------
(* Properties *)

StoreFailed(r) == r.status = 500 /\ r.body.cause = "store"

Answered(name) == op.name = name /\ resp.status = 200

\* the band table of the classification: the pair a value of each band must get
InBand(v, cc) ==
    /\ v < Tenths(70) => cc = <<"Hipoglicemia", "#ef4444">>
    /\ (Tenths(70) <= v /\ v <= Tenths(140)) => cc = <<"Normal", "#22c55e">>
    /\ (Tenths(141) <= v /\ v <= Tenths(199)) => cc = <<"Atencao", "#f59e0b">>
    /\ v >= Tenths(200) => cc = <<"Alerta", "#dc2626">>

\* C1: categorize_glucose gives every value below 70 (negative ones included)
\* Hipoglicemia/#ef4444, every value from 70 to 140 Normal/#22c55e, every value from
\* 141 to 199 Atencao/#f59e0b and every value from 200 up Alerta/#dc2626, and a
\* created reading, as stored and as returned, carries that category and color.
C1_BandsOfTheTable ==
    /\ verdict # << >> => InBand(probe, verdict[1])
    /\ \A i \in 1..Len(docs) :
          /\ docs[i].glucose_value = probe
          /\ InBand(probe, <<docs[i].category, docs[i].color>>)
    /\ Answered("create") =>
          /\ resp.body.glucose_value = probe
          /\ InBand(probe, <<resp.body.category, resp.body.color>>)

C1_Witness ==
    /\ probe = Tenths(199)
    /\ verdict = << <<"Atencao", "#f59e0b">> >>
    /\ Answered("create")
    /\ resp.body.category = "Atencao"
    /\ Len(docs) = 1

BandsHolding(v) ==
    {b \in 1..4 :
        \/ b = 1 /\ v < Tenths(70)
        \/ b = 2 /\ Tenths(70) <= v /\ v <= Tenths(140)
        \/ b = 3 /\ Tenths(141) <= v /\ v <= Tenths(199)
        \/ b = 4 /\ v >= Tenths(200)}

\* C2: for every value, integer or fractional, exactly one of the four conditions
\* of the band table holds and categorize_glucose returns the category of that band;
\* it returns Alerta only for values from 200 up.
C2_NoGapsNoOverlaps ==
    verdict # << >> =>
        /\ Cardinality(BandsHolding(probe)) = 1
        /\ InBand(probe, verdict[1])
        /\ verdict[1][1] = "Alerta" => probe >= Tenths(200)

-----------------------------------------------------------------------------
(* Properties of the stored readings, under Spec *)

Stored == {docs[i] : i \in 1..Len(docs)}

\* creation instant of the stored reading whose id is id
CreatedAt(id) == (CHOOSE d \in Stored : d.id = id).created_at

\* C3: when a create is answered 200 and the next request is get-latest, get-latest
\* returns the reading just created; and get-latest returns null exactly when the
\* store is empty.
C3_ReadAfterWrite ==
    [][/\ (Answered("create") /\ op'.name = "latest" /\ resp'.status = 200)
             => resp'.body = <<resp.body>>
       /\ (op'.name = "latest" /\ resp'.status = 200)
             => (resp'.body = << >> <=> docs' = << >>)]_vars

\* C4: for every integer limit N, get-history returns at most N readings, they are
\* the most recently created ones in strictly descending order of creation instant,
\* and the list is empty when the store is empty.
C4_HistoryRespectsLimit ==
    Answered("history") =>
        LET h == resp.body
            ids == {h[i].id : i \in 1..Len(h)}
        IN /\ Len(h) <= op.limit
           /\ \A i, j \in 1..Len(h) : i < j => CreatedAt(h[i].id) > CreatedAt(h[j].id)
           /\ \A d \in Stored : d.id \notin ids =>
                 \A i \in 1..Len(h) : CreatedAt(h[i].id) >= d.created_at
           /\ docs = << >> => h = << >>

\* what get-stats must report of the collection c: the count, the categories that
\* occur with their counts, and the mean rounded to one decimal (0 when c is empty)
ReportsExactly(body, c) ==
    /\ body.total_readings = Len(c)
    /\ DOMAIN body.category_distribution = Present(c)
    /\ \A k \in Present(c) :
          /\ body.category_distribution[k] = Cardinality({i \in 1..Len(c) : c[i].category = k})
          /\ body.category_distribution[k] > 0
    /\ IF c = << >> THEN body.average_glucose = 0
       ELSE LET d == 2 * (body.average_glucose * Len(c) - SumValues(c))
            IN d <= Len(c) /\ 0 - d <= Len(c)

\* C5 (part): an undisturbed get-stats reports the stored readings exactly
StatsReportTheStore == Answered("stats") => ReportsExactly(resp.body, docs)

\* C5: an undisturbed get-stats reports the store exactly: total_readings is the
\* number of stored readings, which is the number of creates answered 200 since the
\* last clear-all; category_distribution has exactly the categories that occur, with
\* their counts; average_glucose is the mean rounded to one decimal, 0 when empty.
C5_StatsExact ==
    Answered("stats") =>
        /\ ReportsExactly(resp.body, docs)
        /\ resp.body.total_readings = Cardinality(returned)

EmptyStats == [total_readings |-> 0, average_glucose |-> 0, category_distribution |-> << >>]

\* C6: clear-all removes every stored reading and reports as deleted the number stored
\* just before it (0 on an empty store, so also when repeated); and with no create
\* since a clear-all, get-latest answers null, get-history the empty list and get-stats
\* a zero total, zero average and empty distribution, each with status 200 unless the
\* store itself fails.
C6_ClearAll ==
    /\ op.name = "clear" /\ ~StoreFailed(resp) =>
          /\ resp = Ok([deleted |-> before])
          /\ docs = << >>
          /\ cleared
    /\ cleared => docs = << >>
    /\ cleared /\ op.name = "latest" /\ ~StoreFailed(resp) => resp = Ok(<< >>)
    /\ cleared /\ op.name = "history" /\ ~StoreFailed(resp) => resp = Ok(<< >>)
    /\ cleared /\ op.name = "stats" /\ ~StoreFailed(resp) => resp = Ok(EmptyStats)

C6_Witness ==
    /\ cleared
    /\ nextId > 1
    /\ Answered("stats")

ResponseFields == {"id", "glucose_value", "category", "color", "timestamp", "device_id"}

\* the readings a response carries
ReadingsIn(name, r) ==
    IF r.status # 200 THEN {}
    ELSE IF name = "create" THEN {r.body}
    ELSE IF name \in {"latest", "history"} THEN {r.body[i] : i \in 1..Len(r.body)}
    ELSE {}

\* C7: while no clear-all intervenes, a reading that get-latest or get-history returns
\* with the id of a reading a create returned is equal to it in id, glucose_value,
\* category, color, timestamp and device_id; a stored reading is never modified (it
\* only disappears, with all the others); and no response carries created_at.
C7_RoundTrip ==
    [][/\ \A r \in ReadingsIn(op'.name, resp') :
             /\ DOMAIN r = ResponseFields
             /\ \A c \in returned' : c.id = r.id => r = c
       /\ docs' = << >> \/ (Len(docs') >= Len(docs) /\ SubSeq(docs', 1, Len(docs)) = docs)]_vars

C7_Witness ==
    /\ Answered("history")
    /\ Len(resp.body) > 1
    /\ \A i \in 1..Len(resp.body) : resp.body[i] \in returned

SuppliesTimestamp(p) == "timestamp" \in DOMAIN p /\ p.timestamp # None

Generated == {IsoFormat(t) : t \in 0..MaxClock}

\* C8: a create whose request supplies a timestamp string, whatever the string,
\* stores and returns exactly that string; a server-generated timestamp is used only
\* when the request supplies none.
C8_TimestampVerbatim ==
    [][\A p \in Payloads :
          (save_glucose_reading({p}) /\ resp'.status = 200) =>
              IF SuppliesTimestamp(p)
              THEN /\ resp'.body.timestamp = p.timestamp[1]
                   /\ docs'[Len(docs')].timestamp = p.timestamp[1]
              ELSE resp'.body.timestamp \in Generated]_vars

\* C9: a create answered with an error leaves the store as it was, and every stored
\* reading can be returned by get-latest and get-history without error.
C9_ErrorLeavesStoreUnchanged ==
    /\ op.name = "create" /\ resp.status = 500 => Len(docs) = before
    /\ \A d \in Stored : Validates(d.device_id)

-----------------------------------------------------------------------------
(* Properties of a get-stats that other requests overtake, under SpecProcs *)

RECURSIVE SumCounts(_)
SumCounts(f) ==
    IF DOMAIN f = {} THEN 0
    ELSE LET k == CHOOSE x \in DOMAIN f : TRUE
         IN f[k] + SumCounts([x \in DOMAIN f \ {k} |-> f[x]])

\* C10: every get-stats response is consistent in itself, also when creates and
\* clear-alls reach the store between its three queries: total_readings is the sum of
\* the counts of category_distribution, and average_glucose is 0 only if
\* total_readings is 0 (no reading of the model has the value 0).
C10_StatsConsistent ==
    Answered("stats") =>
        /\ resp.body.total_readings = SumCounts(resp.body.category_distribution)
        /\ resp.body.average_glucose = 0 => resp.body.total_readings = 0

=============================================================================
